---- MODULE Spec2Model ----
(***************************************************************************)
(* Points ledger of the LeaderBoard-System backend.                        *)
(*                                                                         *)
(* The state is the two MongoDB collections (users, claims), the request   *)
(* handlers that are suspended at an `await` (inflight) and the last HTTP  *)
(* response written (resp).  Every action is the piece of a handler that   *)
(* runs between two awaits: the store executes each single operation       *)
(* (findById, insert, findByIdAndUpdate) atomically, and handlers of       *)
(* different requests interleave at the awaits.                            *)
(*                                                                         *)
(* Fields the ledger does not depend on (name, email, avatar, description, *)
(* metadata, timestamps) are left out.  Documents are never removed, so a  *)
(* user's _id is its index in users and a claim's _id its index in claims; *)
(* both orders are the creation orders.                                    *)
(***************************************************************************)
EXTENDS Integers, Sequences, FiniteSets, TLC

VARIABLES
    users,      \* collection users:  <<[isActive, totalPoints, claimsCount]>>
    claims,     \* collection claims: <<[userId, points, claimType, isValid]>>
    inflight,   \* handlers suspended at an await, in order of arrival
    resp,       \* the response the claims router wrote in the last step: [op, status]
    applied,    \* per user, the net of the $inc updates the store has applied
    revokes,    \* number of DELETE /api/claims/:id requests on an invalid claim
    dash,       \* the Dashboard component of a browser: its state and its refs
    timers      \* the intervals of that browser: <<[active, left]>>, id = index

vars == <<users, claims, inflight, resp, applied, revokes, dash, timers>>

---------------------------------------------------------------------------
\* Bounds of the model.

MaxUsers == 2
MaxClaims == 2
MaxInflight == 2
MaxRevokes == 1

---------------------------------------------------------------------------
\* Values of a request.

\* req.body.points when the field is absent (undefined).
NoPoints == -1

\* An id that is no 24-hex-digit ObjectId.
BadId == 0

\* req.body.claimType when the field is absent (undefined).
NoType == "undefined"

ClaimTypes == {"random", "bonus", "manual"}

MinPoints == 1
MaxPoints == 10

\* The request bodies the model submits.
UserIdInputs == {BadId} \cup (1..MaxUsers)
PointInputs == {NoPoints, 0, 1, 11}
TypeInputs == {NoType, "bonus", "bogus"}
ClaimIdInputs == {BadId} \cup (1..MaxClaims)

\* Math.random() is a number in [0, 1); the model draws its first decimal
\* digit, floor(Math.random() * 10).
RandomDigits == {0, 9}

---------------------------------------------------------------------------
\* Helpers on sequences.

RemoveAt(s, i) == [j \in 1..(Len(s) - 1) |-> IF j < i THEN s[j] ELSE s[j + 1]]

\* The sum of the points and the number of the valid claims of user u among the
\* first n documents of the collection cs: $match {isValid: true}, $group by
\* userId with $sum: '$points' and $sum: 1.
RECURSIVE ValidPoints(_, _, _)
ValidPoints(cs, u, n) ==
    IF n = 0 THEN 0
    ELSE (IF cs[n].userId = u /\ cs[n].isValid THEN cs[n].points ELSE 0)
         + ValidPoints(cs, u, n - 1)

RECURSIVE ValidCount(_, _, _)
ValidCount(cs, u, n) ==
    IF n = 0 THEN 0
    ELSE (IF cs[n].userId = u /\ cs[n].isValid THEN 1 ELSE 0)
         + ValidCount(cs, u, n - 1)

---------------------------------------------------------------------------
\* Validation.

\* body('userId').notEmpty().isMongoId()
ValidUserId(uid) == uid # BadId

\* body('points').optional().isInt({min: 1, max: 10})
ValidPointsField(pts) == pts = NoPoints \/ (pts >= MinPoints /\ pts <= MaxPoints)

\* body('claimType').optional().isIn(['random', 'bonus', 'manual'])
ValidTypeField(type) == type = NoType \/ type \in ClaimTypes

\* validateClaim followed by handleValidationErrors: next() is called only
\* when no rule failed.
validateClaim(uid, pts, type) ==
    ValidUserId(uid) /\ ValidPointsField(pts) /\ ValidTypeField(type)

\* JavaScript's !points for an absent or a numeric points field.
Falsy(pts) == pts = NoPoints \/ pts = 0

\* const { claimType = 'random' } = req.body
TypeOrDefault(type) == IF type = NoType THEN "random" ELSE type

\* claimType === 'random' && !points ? Math.floor(Math.random() * 10) + 1 : points
ClaimPoints(type, pts, digit) ==
    IF TypeOrDefault(type) = "random" /\ Falsy(pts) THEN digit + 1 ELSE pts

\* A schema whose points field carries no required, min or max rule.
SchemaValidNoPointsRule(doc) ==
    /\ doc.userId # BadId
    /\ doc.claimType \in ClaimTypes

\* The schema's validators, run by save() before the pre('save') hook:
\* userId required, points required with min 1 and max 10, claimType in the enum.
SchemaValid(doc) ==
    /\ doc.userId # BadId
    /\ doc.points # NoPoints
    /\ doc.points >= MinPoints
    /\ doc.points <= MaxPoints
    /\ doc.claimType \in ClaimTypes

\* claimSchema.pre('save'): an error when points < 1 or points > 10 (both
\* comparisons are false for undefined).
PreSaveOk(doc) ==
    ~(doc.points # NoPoints /\ (doc.points < MinPoints \/ doc.points > MaxPoints))

---------------------------------------------------------------------------
\* Store operations.

\* User.findById(id): the document, or null.
UserExists(id) == id \in DOMAIN users

\* User.findByIdAndUpdate(id, {$inc: {totalPoints: dp, claimsCount: dc}}):
\* one atomic update of the stored document; no validators run.
IncUser(us, id, dp, dc) ==
    IF id \in DOMAIN us
    THEN [us EXCEPT ![id].totalPoints = @ + dp, ![id].claimsCount = @ + dc]
    ELSE us

\* The net of the increments the store has applied to user id.
IncApplied(ap, id, dp, dc) ==
    IF id \in DOMAIN ap
    THEN [ap EXCEPT ![id].points = @ + dp, ![id].count = @ + dc]
    ELSE ap

\* A hook that increments totalPoints and forgets claimsCount.
PostSaveUpdateNoCount(us, r) == IncUser(us, r.userId, r.points, 0)

\* A hook that calls addPoints on the document the handler read before save():
\* totalPoints and claimsCount are computed from that copy and written back.
PostSaveUpdateAddPoints(us, r) ==
    IF r.userId \in DOMAIN us
    THEN [us EXCEPT ![r.userId].totalPoints = r.seenTotal + r.points,
                    ![r.userId].claimsCount = r.seenCount + 1]
    ELSE us

\* The update the post('save') hook issues for the saved document of request r.
PostSaveUpdate(us, r) == IncUser(us, r.userId, r.points, 1)

\* A decrement that subtracts the points and leaves claimsCount alone.
RevokeUpdateNoCount(us, r) == IncUser(us, r.userId, 0 - r.points, 0)

\* The update DELETE /api/claims/:id issues for the claim returned to request r.
RevokeUpdate(us, r) == IncUser(us, r.userId, 0 - r.points, -1)

\* An update that flips isValid.
InvalidateToggle(cs, cid) == [cs EXCEPT ![cid].isValid = ~@]

\* Claim.findByIdAndUpdate(cid, {isValid: false}): the claims collection after
\* the update.
Invalidate(cs, cid) == [cs EXCEPT ![cid].isValid = FALSE]

\* A handler suspended at an await.
Request(op, pc, uid, pts, type, cid, first, seenTotal, seenCount) ==
    [op |-> op, pc |-> pc, userId |-> uid, points |-> pts, claimType |-> type,
     claimId |-> cid, first |-> first, seenTotal |-> seenTotal,
     seenCount |-> seenCount]

Response(op, status) == [op |-> op, status |-> status]

\* No response is being written.
NoResponse == Response("none", 0)

\* The browser before a Dashboard is rendered: no state, no ref, no interval.
NoTimer == 0
NoDashboard ==
    [mounted |-> FALSE, initialLoadComplete |-> FALSE,
     pollingIntervalRef |-> NoTimer, leaderboard |-> << >>,
     stats |-> [totalUsers |-> 0, totalPoints |-> 0, totalClaims |-> 0],
     loaded |-> FALSE, claiming |-> FALSE, pending |-> 0, refreshing |-> 0,
     clicks |-> 0]

\* Node runs one callback at a time, and a handler hands its response to the
\* socket in the callback that computes it: no other callback runs in between.
Idle == resp = NoResponse

\* Number of submissions that have not written the ledger yet.
PendingSaves ==
    Cardinality({i \in DOMAIN inflight :
                    inflight[i].op = "submit" /\ inflight[i].pc = "save"})

---------------------------------------------------------------------------
Init ==
    /\ users = << >>
    /\ claims = << >>
    /\ inflight = << >>
    /\ resp = NoResponse
    /\ applied = << >>
    /\ revokes = 0
    /\ dash = NoDashboard
    /\ timers = << >>

---------------------------------------------------------------------------
\* POST /api/users: a new active user with no points.
CreateUser ==
    /\ Idle
    /\ Len(users) < MaxUsers
    /\ users' = Append(users, [isActive |-> TRUE, totalPoints |-> 0,
                               claimsCount |-> 0])
    /\ applied' = Append(applied, [points |-> 0, count |-> 0])
    /\ UNCHANGED <<claims, inflight, resp, revokes, dash, timers>>

\* DELETE /api/users/:id: the user is deactivated.  For a malformed or unknown
\* id the handler answers 404 and changes nothing.
DeactivateUser(id) ==
    /\ Idle
    /\ UserExists(id)
    /\ users' = [users EXCEPT ![id].isActive = FALSE]
    /\ UNCHANGED <<claims, inflight, resp, applied, revokes, dash, timers>>

---------------------------------------------------------------------------
\* POST /api/claims.

\* The validation middleware answers 400; the handler does not run.
SubmitRejected(uid, pts, type) ==
    /\ Idle
    /\ ~validateClaim(uid, pts, type)
    /\ resp' = Response("submit", 400)
    /\ UNCHANGED <<users, claims, inflight, applied, revokes, dash, timers>>

\* User.findById throws: the catch block answers 500.
SubmitFindFailed(uid, pts, type) ==
    /\ Idle
    /\ validateClaim(uid, pts, type)
    /\ resp' = Response("submit", 500)
    /\ UNCHANGED <<users, claims, inflight, applied, revokes, dash, timers>>

\* A handler that saves the claim before it looks the user up, and then
\* answers 404.
SubmitUnknownUserSaved(uid, pts, type) ==
    /\ Idle
    /\ validateClaim(uid, pts, type)
    /\ ~(UserExists(uid) /\ users[uid].isActive)
    /\ claims' = Append(claims, [userId |-> uid, points |-> pts,
                                 claimType |-> TypeOrDefault(type), isValid |-> TRUE])
    /\ resp' = Response("submit", 404)
    /\ UNCHANGED <<users, inflight, applied, revokes, dash, timers>>

\* No such user, or the user is inactive: 404.
SubmitUnknownUser(uid, pts, type) ==
    /\ Idle
    /\ validateClaim(uid, pts, type)
    /\ ~(UserExists(uid) /\ users[uid].isActive)
    /\ resp' = Response("submit", 404)
    /\ UNCHANGED <<users, claims, inflight, applied, revokes, dash, timers>>

\* The user is found active; the handler builds the claim and awaits save().
SubmitAccepted(uid, pts, type, digit) ==
    /\ Idle
    /\ validateClaim(uid, pts, type)
    /\ UserExists(uid)
    /\ users[uid].isActive
    /\ Len(inflight) < MaxInflight
    /\ Len(claims) + PendingSaves < MaxClaims
    /\ inflight' = Append(inflight,
          Request("submit", "save", uid, ClaimPoints(type, pts, digit),
                  TypeOrDefault(type), 0, FALSE,
                  users[uid].totalPoints, users[uid].claimsCount))
    /\ UNCHANGED <<users, claims, resp, applied, revokes, dash, timers>>

\* The document new Claim({...}) of request r; isValid defaults to true.
ClaimDoc(r) ==
    [userId |-> r.userId, points |-> r.points, claimType |-> r.claimType,
     isValid |-> TRUE]

\* claim.save() rejects: a validator or the pre('save') hook fails.  The catch
\* block answers 500.
SubmitSaveInvalid(i) ==
    /\ Idle
    /\ i \in DOMAIN inflight
    /\ inflight[i].op = "submit"
    /\ inflight[i].pc = "save"
    /\ ~(SchemaValid(ClaimDoc(inflight[i])) /\ PreSaveOk(ClaimDoc(inflight[i])))
    /\ inflight' = RemoveAt(inflight, i)
    /\ resp' = Response("submit", 500)
    /\ UNCHANGED <<users, claims, applied, revokes, dash, timers>>

\* claim.save() rejects: the insert throws.  The catch block answers 500.
SubmitSaveFailed(i) ==
    /\ Idle
    /\ i \in DOMAIN inflight
    /\ inflight[i].op = "submit"
    /\ inflight[i].pc = "save"
    /\ inflight' = RemoveAt(inflight, i)
    /\ resp' = Response("submit", 500)
    /\ UNCHANGED <<users, claims, applied, revokes, dash, timers>>

\* claim.save() inserts the document; the post('save') hook is pending.
SubmitSave(i) ==
    /\ Idle
    /\ i \in DOMAIN inflight
    /\ inflight[i].op = "submit"
    /\ inflight[i].pc = "save"
    /\ SchemaValid(ClaimDoc(inflight[i]))
    /\ PreSaveOk(ClaimDoc(inflight[i]))
    /\ claims' = Append(claims, ClaimDoc(inflight[i]))
    /\ inflight' = [inflight EXCEPT ![i].pc = "hook",
                                    ![i].claimId = Len(claims) + 1]
    /\ UNCHANGED <<users, resp, applied, revokes, dash, timers>>

\* The post('save') hook's update is applied; then populate() succeeds (201)
\* or throws (500).
SubmitPostSave(i, status) ==
    /\ Idle
    /\ i \in DOMAIN inflight
    /\ inflight[i].op = "submit"
    /\ inflight[i].pc = "hook"
    /\ ClaimDoc(inflight[i]).isValid
    /\ users' = PostSaveUpdate(users, inflight[i])
    /\ applied' = IncApplied(applied, inflight[i].userId, inflight[i].points, 1)
    /\ inflight' = RemoveAt(inflight, i)
    /\ resp' = Response("submit", status)
    /\ UNCHANGED <<claims, revokes, dash, timers>>

\* The post('save') hook's update throws; the hook logs the error and
\* returns, so save() resolves.  Then populate() succeeds (201) or throws (500).
SubmitPostSaveSwallowed(i, status) ==
    /\ Idle
    /\ i \in DOMAIN inflight
    /\ inflight[i].op = "submit"
    /\ inflight[i].pc = "hook"
    /\ inflight' = RemoveAt(inflight, i)
    /\ resp' = Response("submit", status)
    /\ UNCHANGED <<users, claims, applied, revokes, dash, timers>>

---------------------------------------------------------------------------
\* DELETE /api/claims/:id.

\* Claim.findByIdAndUpdate(id, {isValid: false}, {new: true}) finds no
\* document, or the id is malformed: 404.
RevokeUnknown(cid) ==
    /\ Idle
    /\ cid \notin DOMAIN claims
    /\ resp' = Response("revoke", 404)
    /\ UNCHANGED <<users, claims, inflight, applied, revokes, dash, timers>>

\* Claim.findByIdAndUpdate throws: 500.
RevokeFindFailed(cid) ==
    /\ Idle
    /\ cid \in DOMAIN claims
    /\ resp' = Response("revoke", 500)
    /\ UNCHANGED <<users, claims, inflight, applied, revokes, dash, timers>>

\* Claim.findByIdAndUpdate sets isValid to false and returns the updated
\* document; the handler awaits the update of the user.  `first` records
\* whether the claim was valid before the update.
RevokeInvalidate(cid) ==
    /\ Idle
    /\ cid \in DOMAIN claims
    /\ Len(inflight) < MaxInflight
    /\ (~claims[cid].isValid) => revokes < MaxRevokes
    /\ claims' = Invalidate(claims, cid)
    /\ inflight' = Append(inflight,
          Request("revoke", "dec", claims[cid].userId, claims[cid].points,
                  claims[cid].claimType, cid, claims[cid].isValid, 0, 0))
    /\ revokes' = IF claims[cid].isValid THEN revokes ELSE revokes + 1
    /\ UNCHANGED <<users, resp, applied, dash, timers>>

\* User.findByIdAndUpdate applies the decrement: 200.
RevokeDecrement(i) ==
    /\ Idle
    /\ i \in DOMAIN inflight
    /\ inflight[i].op = "revoke"
    /\ inflight[i].pc = "dec"
    /\ users' = RevokeUpdate(users, inflight[i])
    /\ applied' = IncApplied(applied, inflight[i].userId,
                             0 - inflight[i].points, -1)
    /\ inflight' = RemoveAt(inflight, i)
    /\ resp' = Response("revoke", 200)
    /\ UNCHANGED <<claims, revokes, dash, timers>>

\* User.findByIdAndUpdate throws: 500.
RevokeDecrementFailed(i) ==
    /\ Idle
    /\ i \in DOMAIN inflight
    /\ inflight[i].op = "revoke"
    /\ inflight[i].pc = "dec"
    /\ inflight' = RemoveAt(inflight, i)
    /\ resp' = Response("revoke", 500)
    /\ UNCHANGED <<users, claims, applied, revokes, dash, timers>>

---------------------------------------------------------------------------
\* The response has left the process.
ResponseSent ==
    /\ ~Idle
    /\ resp' = NoResponse
    /\ UNCHANGED <<users, claims, inflight, applied, revokes, dash, timers>>

---------------------------------------------------------------------------
Next ==
    \/ CreateUser
    \/ \E id \in UserIdInputs : DeactivateUser(id)
    \/ \E uid \in UserIdInputs, pts \in PointInputs, type \in TypeInputs :
          \/ SubmitRejected(uid, pts, type)
          \/ SubmitFindFailed(uid, pts, type)
          \/ SubmitUnknownUser(uid, pts, type)
          \/ \E digit \in RandomDigits : SubmitAccepted(uid, pts, type, digit)
    \/ \E i \in 1..MaxInflight :
          \/ SubmitSaveInvalid(i)
          \/ SubmitSaveFailed(i)
          \/ SubmitSave(i)
          \/ \E status \in {201, 500} :
                SubmitPostSave(i, status) \/ SubmitPostSaveSwallowed(i, status)
          \/ RevokeDecrement(i)
          \/ RevokeDecrementFailed(i)
    \/ \E cid \in ClaimIdInputs :
          RevokeUnknown(cid) \/ RevokeFindFailed(cid) \/ RevokeInvalidate(cid)
    \/ ResponseSent

Spec == Init /\ [][Next]_vars

\* The same system when no store operation ever throws.
NextReliable ==
    \/ CreateUser
    \/ \E id \in UserIdInputs : DeactivateUser(id)
    \/ \E uid \in UserIdInputs, pts \in PointInputs, type \in TypeInputs :
          \/ SubmitRejected(uid, pts, type)
          \/ SubmitUnknownUser(uid, pts, type)
          \/ \E digit \in RandomDigits : SubmitAccepted(uid, pts, type, digit)
    \/ \E i \in 1..MaxInflight :
          \/ SubmitSaveInvalid(i)
          \/ SubmitSave(i)
          \/ SubmitPostSave(i, 201)
          \/ RevokeDecrement(i)
    \/ \E cid \in ClaimIdInputs : RevokeUnknown(cid) \/ RevokeInvalidate(cid)
    \/ ResponseSent

SpecReliable == Init /\ [][NextReliable]_vars

---------------------------------------------------------------------------
\* Vocabulary of the properties.

\* No submit or revoke for user u is in flight.
Quiescent(u) == \A i \in DOMAIN inflight : inflight[i].userId # u

\* The aggregate of user u equals the sum and the count of u's valid claims.
Consistent(u) ==
    /\ users[u].totalPoints = ValidPoints(claims, u, Len(claims))
    /\ users[u].claimsCount = ValidCount(claims, u, Len(claims))

\* This step ends the handler of request i (its response is written).
Completes(i) == i \in DOMAIN inflight /\ inflight' = RemoveAt(inflight, i)

\* This step changes the aggregate of no user other than u.
OthersUnchanged(u) ==
    /\ DOMAIN users' = DOMAIN users
    /\ \A v \in DOMAIN users : v # u => users'[v] = users[v]

---------------------------------------------------------------------------
\* C1: in every state in which no submit or revoke for a participant is in
\* flight, the participant's totalPoints is the sum of the points of its valid
\* claims and its claimsCount is their number.
C1_AggregateConsistency ==
    \A u \in DOMAIN users : Quiescent(u) => Consistent(u)

\* C2: a revoke of a claim that was already invalid leaves every participant's
\* totalPoints and claimsCount unchanged.
C2_RevokeIdempotent ==
    [][\A i \in DOMAIN inflight :
          (inflight[i].op = "revoke" /\ ~inflight[i].first /\ Completes(i))
              => users' = users]_vars

C4_RevokeEffect ==
    [][/\ \A c \in DOMAIN claims :
            (claims[c].isValid /\ ~claims'[c].isValid)
               => /\ claims' = [claims EXCEPT ![c].isValid = FALSE]
                  /\ users' = users
       /\ \A i \in DOMAIN inflight :
            LET r == inflight[i] IN
            (/\ r.op = "revoke"
             /\ r.first
             /\ Completes(i)
             /\ resp' = Response("revoke", 200))
               => /\ users'[r.userId].totalPoints
                        = users[r.userId].totalPoints - claims[r.claimId].points
                  /\ users'[r.userId].claimsCount
                        = users[r.userId].claimsCount - 1
                  /\ users'[r.userId].isActive = users[r.userId].isActive
                  /\ OthersUnchanged(r.userId)
                  /\ claims' = claims]_vars

\* C4 witness: a revoke has answered 200, the only claim of its participant is
\* invalid and the participant is back at 0 points and 0 claims.
C4_Witness ==
    /\ resp = Response("revoke", 200)
    /\ Len(claims) = 1
    /\ ~claims[1].isValid
    /\ users[claims[1].userId].totalPoints = 0
    /\ users[claims[1].userId].claimsCount = 0
    /\ revokes = 0

\* C5: every increment and decrement the store has applied to a participant
\* is reflected in its totalPoints and claimsCount, in every interleaving.
C5_NoLostUpdate ==
    \A u \in DOMAIN users :
        /\ users[u].totalPoints = applied[u].points
        /\ users[u].claimsCount = applied[u].count

\* C5 witness: an update for a participant has been applied while a submission
\* that read the participant before that update is still to apply its own.
C5_Witness ==
    \E i \in DOMAIN inflight :
        /\ inflight[i].op = "submit"
        /\ inflight[i].pc = "hook"
        /\ inflight[i].seenCount # users[inflight[i].userId].claimsCount
        /\ applied[inflight[i].userId].count # inflight[i].seenCount

\* C6: every participant's totalPoints and claimsCount are non-negative.
C6_NonNegative ==
    \A u \in DOMAIN users :
        users[u].totalPoints >= 0 /\ users[u].claimsCount >= 0

\* A step of the system that leaves the ledger as it is and after which the
\* aggregate of user u equals the sum and the count of u's valid claims.
Reconciles(u) == Next /\ claims' = claims /\ (Consistent(u))'

\* C7: the system provides a reconciliation operation: whenever a
\* participant's aggregate differs from the sum and count of its valid claims
\* and no request is in flight, some operation of the system sets the
\* aggregate to that sum and count without changing the ledger.
C7_ReconciliationAvailable ==
    \A u \in DOMAIN users :
        (inflight = << >> /\ Idle /\ ~Consistent(u)) => ENABLED Reconciles(u)

\* C8: no claim record is written for a participant who is inactive (or does
\* not exist) when the record is written.
C8_NoClaimForInactive ==
    [][Len(claims') > Len(claims)
          => /\ claims'[Len(claims')].userId \in DOMAIN users
             /\ users[claims'[Len(claims')].userId].isActive]_vars

\* C9: every claim record has integer points in 1..10 and a claimType among
\* random, bonus and manual.
C9_ClaimRange ==
    \A c \in DOMAIN claims :
        /\ claims[c].points \in MinPoints..MaxPoints
        /\ claims[c].claimType \in ClaimTypes

\* C9 witness: a record of a random claim holds 10 points, which only the
\* server's draw produces (the bodies submitted supply 1 point or none).
C9_Witness ==
    \E c \in DOMAIN claims :
        claims[c].claimType = "random" /\ claims[c].points = 10

\* C10: a submission answers 201 only in a step that has incremented the
\* participant's totalPoints and claimsCount.
C10_SuccessImpliesIncrement ==
    [][resp' = Response("submit", 201)
          => \E u \in DOMAIN users :
                /\ users'[u].claimsCount = users[u].claimsCount + 1
                /\ users'[u].totalPoints > users[u].totalPoints]_vars

\* C11: every claim is created valid; a claim that is invalid stays invalid;
\* the id (its index), the participant and the points of a claim never change,
\* the creation order of the claims is kept, and no claim and no participant
\* is ever removed.
C11_ValidityMonotone ==
    [][/\ Len(claims') >= Len(claims)
       /\ Len(users') >= Len(users)
       /\ \A c \in DOMAIN claims :
             /\ claims'[c].userId = claims[c].userId
             /\ claims'[c].points = claims[c].points
             /\ claims'[c].claimType = claims[c].claimType
             /\ (~claims[c].isValid) => ~claims'[c].isValid
       /\ \A c \in DOMAIN claims' \ DOMAIN claims : claims'[c].isValid]_vars

\* C11 witness: a claim has been revoked twice and is invalid, and a claim
\* created after it is valid.
C11_Witness ==
    /\ revokes = 1
    /\ Len(claims) = 2
    /\ ~claims[1].isValid
    /\ claims[2].isValid
    /\ inflight = << >>

---------------------------------------------------------------------------
\* The ranking routes: GET /api/leaderboard and
\* GET /api/leaderboard/user/:userId/position.

\* Bounds of the ranking model.
MaxRankUsers == 6
MaxTotal == 1
MaxInactive == 1
\* Read queries being processed at a time.
MaxQueries == 1

\* req.query.limit when the parameter is absent (undefined).
NoLimit == -1

\* The ids and the limits the model queries with.
RankIdInputs == {BadId} \cup (1..MaxRankUsers)
LimitInputs == {NoLimit, 0, 1, 3}

\* const { limit = 10 } = req.query; parseInt(limit)
DefaultLimit == 10
limitNum(limit) == IF limit = NoLimit THEN DefaultLimit ELSE limit

\* const context = 2
context == 2

Min(a, b) == IF a < b THEN a ELSE b
Max(a, b) == IF a > b THEN a ELSE b

\* A filter that matches every user.
AllUsers(us) == DOMAIN us

\* The filter {isActive: true}.
ActiveUsers(us) == {u \in DOMAIN us : us[u].isActive}

\* sort({totalPoints: -1, createdAt: 1}): v comes before u.  The users are
\* stored in creation order, so createdAt ascending is index ascending.
SortsBefore(us, v, u) ==
    \/ us[v].totalPoints > us[u].totalPoints
    \/ (us[v].totalPoints = us[u].totalPoints /\ v < u)

\* User.find({isActive: true}).sort({totalPoints: -1, createdAt: 1}): the ids
\* of the active users in that order.
SortedActive(us) ==
    LET act == ActiveUsers(us)
        place(u) == 1 + Cardinality({v \in act : SortsBefore(us, v, u)})
    IN  [k \in 1..Cardinality(act) |-> CHOOSE u \in act : place(u) = k]

\* .skip(n).limit(m) of a find cursor; a limit of 0 is no limit.
SkipLimit(s, n, m) ==
    LET last == IF m = 0 THEN Len(s) ELSE Min(Len(s), n + m)
    IN  [k \in 1..Max(0, last - n) |-> s[n + k]]

\* userSchema.statics.getTopUsers(limit)
getTopUsers(us, limit) == SkipLimit(SortedActive(us), 0, limit)

\* A badge table whose Top 10 tier ends at rank 9.
getRankBadgeShortTier(rank) ==
    IF rank = 1 THEN "Gold"
    ELSE IF rank = 2 THEN "Silver"
    ELSE IF rank = 3 THEN "Bronze"
    ELSE IF rank < 10 THEN "Top 10"
    ELSE IF rank <= 50 THEN "Top 50"
    ELSE "Ranked"

\* getRankBadge(rank): the badge's name.
getRankBadge(rank) ==
    IF rank = 1 THEN "Gold"
    ELSE IF rank = 2 THEN "Silver"
    ELSE IF rank = 3 THEN "Bronze"
    ELSE IF rank <= 10 THEN "Top 10"
    ELSE IF rank <= 50 THEN "Top 50"
    ELSE "Ranked"

\* topUsers.map((user, index) => ({...user, rank: index + 1, badge: ...}))
WithRanks(us, ids) ==
    [k \in 1..Len(ids) |->
        [id |-> ids[k], totalPoints |-> us[ids[k]].totalPoints,
         rank |-> k, badge |-> getRankBadge(k)]]

\* A count that includes the users with the same totalPoints.
usersAboveOrEqual(us, total) ==
    Cardinality({v \in ActiveUsers(us) : us[v].totalPoints >= total})

\* User.countDocuments({isActive: true, totalPoints: {$gt: user.totalPoints}})
usersAbove(us, total) ==
    Cardinality({v \in ActiveUsers(us) : us[v].totalPoints > total})

\* User.countDocuments({isActive: true})
totalUsers(us) == Cardinality(ActiveUsers(us))

\* User.find({isActive: true}).sort(...).skip(Math.max(0, rank - context - 1))
\*     .limit(context * 2 + 1)
contextUsers(us, rank) ==
    SkipLimit(SortedActive(us), Max(0, rank - context - 1), context * 2 + 1)

\* contextUsers.map((u, index) => ({...u, rank: Math.max(1, rank - context)
\*     + index, badge: getRankBadge(...), isCurrentUser: u._id === userId}))
contextWithRanks(us, rank, uid) ==
    LET ids == contextUsers(us, rank)
    IN  [k \in 1..Len(ids) |->
            [id |-> ids[k],
             rank |-> Max(1, rank - context) + (k - 1),
             badge |-> getRankBadge(Max(1, rank - context) + (k - 1)),
             isCurrentUser |-> ids[k] = uid]]

\* Math.round(x) is null in the JSON response when x is NaN or -Infinity.
NoPercentile == -1

\* A percentile that truncates where Math.round rounds.
percentileTruncated(rank, total) ==
    IF total = 0 THEN NoPercentile
    ELSE (100 * (total - (rank - 1))) \div total

\* Math.round((1 - (rank - 1) / total) * 100): the quotient
\* 100 * (total - rank + 1) / total rounded to the nearest integer, halves up.
percentile(rank, total) ==
    IF total = 0 THEN NoPercentile
    ELSE (200 * (total - (rank - 1)) + total) \div (2 * total)

\* The position handler suspended at an await.  `start` is the users
\* collection as the handler's first read saw it.
PositionRequest(pc, uid, seenTotal, rank, ctx, total, start) ==
    [op |-> "position", pc |-> pc, userId |-> uid, seenTotal |-> seenTotal,
     rank |-> rank, context |-> ctx, totalUsers |-> total, start |-> start]

\* new Date() of the query: noon of a day (times are hours since a local
\* midnight).
NowInputs == {24012}

\* createdAt of the claims: 8 days before that noon, 23:00 of the day before,
\* and 11:00 of the same day.
CreatedAtInputs == {23820, 23999, 24011}

\* The latest of these times.
LatestCreatedAt == CHOOSE t \in CreatedAtInputs : \A x \in CreatedAtInputs : x <= t

\* The ledger in which every user with a positive total holds one manual claim
\* of that many points, created at the latest of the times above.
RECURSIVE LedgerOf(_, _)
LedgerOf(totals, n) ==
    IF n = 0 THEN << >>
    ELSE IF totals[n] > 0
         THEN Append(LedgerOf(totals, n - 1),
                     [userId |-> n, points |-> totals[n], claimType |-> "manual",
                      isValid |-> TRUE, createdAt |-> LatestCreatedAt])
         ELSE LedgerOf(totals, n - 1)

\* A store that the routes above have filled: n active users, each with at
\* most one accepted claim.
InitRank ==
    \E n \in 0..MaxRankUsers :
    \E totals \in [1..n -> 0..MaxTotal] :
        /\ users = [u \in 1..n |->
                      [isActive |-> TRUE, totalPoints |-> totals[u],
                       claimsCount |-> IF totals[u] > 0 THEN 1 ELSE 0]]
        /\ claims = LedgerOf(totals, n)
        /\ applied = [u \in 1..n |->
                        [points |-> totals[u],
                         count |-> IF totals[u] > 0 THEN 1 ELSE 0]]
        /\ inflight = << >>
        /\ resp = NoResponse
        /\ revokes = 0
        /\ dash = NoDashboard
        /\ timers = << >>

\* DELETE /api/users/:id, at most MaxInactive times.
RankDeactivate(id) ==
    /\ Cardinality(DOMAIN users \ ActiveUsers(users)) < MaxInactive
    /\ UserExists(id)
    /\ users[id].isActive
    /\ DeactivateUser(id)

\* GET /api/leaderboard?limit=...: 200 with the ranked top users.
GlobalLeaderboard(limit) ==
    /\ Idle
    /\ Len(inflight) < MaxQueries
    /\ resp' = [op |-> "leaderboard", status |-> 200,
                requestedLimit |-> limitNum(limit),
                leaderboard |-> WithRanks(users, getTopUsers(users, limitNum(limit)))]
    /\ UNCHANGED <<users, claims, inflight, applied, revokes, dash, timers>>

\* User.getTopUsers throws: the catch block answers 500.
GlobalLeaderboardFailed(limit) ==
    /\ Idle
    /\ Len(inflight) < MaxQueries
    /\ resp' = Response("leaderboard", 500)
    /\ UNCHANGED <<users, claims, inflight, applied, revokes, dash, timers>>

\* GET /api/leaderboard/user/:userId/position: User.findById finds no user or
\* an inactive one, or the id is malformed: 404.
PositionUnknown(uid) ==
    /\ Idle
    /\ Len(inflight) < MaxQueries
    /\ ~(ValidUserId(uid) /\ UserExists(uid) /\ users[uid].isActive)
    /\ resp' = Response("position", 404)
    /\ UNCHANGED <<users, claims, inflight, applied, revokes, dash, timers>>

\* User.findById finds the active user; the handler awaits the first count.
PositionFind(uid) ==
    /\ Idle
    /\ ValidUserId(uid)
    /\ UserExists(uid)
    /\ users[uid].isActive
    /\ Len(inflight) < MaxQueries
    /\ inflight' = Append(inflight,
          PositionRequest("above", uid, users[uid].totalPoints, 0, << >>, 0,
                          users))
    /\ UNCHANGED <<users, claims, resp, applied, revokes, dash, timers>>

\* const rank = usersAbove + 1; the handler awaits the find of the context.
PositionRank(i) ==
    /\ Idle
    /\ i \in DOMAIN inflight
    /\ inflight[i].op = "position"
    /\ inflight[i].pc = "above"
    /\ inflight' = [inflight EXCEPT
          ![i].pc = "context",
          ![i].rank = usersAbove(users, inflight[i].seenTotal) + 1]
    /\ UNCHANGED <<users, claims, resp, applied, revokes, dash, timers>>

\* contextUsers is read and mapped; the handler awaits meta.totalUsers.
PositionContext(i) ==
    /\ Idle
    /\ i \in DOMAIN inflight
    /\ inflight[i].op = "position"
    /\ inflight[i].pc = "context"
    /\ inflight' = [inflight EXCEPT
          ![i].pc = "total",
          ![i].context = contextWithRanks(users, inflight[i].rank,
                                          inflight[i].userId)]
    /\ UNCHANGED <<users, claims, resp, applied, revokes, dash, timers>>

\* meta.totalUsers is counted; the handler awaits the count of the percentile.
PositionTotalUsers(i) ==
    /\ Idle
    /\ i \in DOMAIN inflight
    /\ inflight[i].op = "position"
    /\ inflight[i].pc = "total"
    /\ inflight' = [inflight EXCEPT ![i].pc = "percentile",
                                    ![i].totalUsers = totalUsers(users)]
    /\ UNCHANGED <<users, claims, resp, applied, revokes, dash, timers>>

\* The second count arrives, meta.percentile is computed and res.json answers.
PositionRespond(i) ==
    /\ Idle
    /\ i \in DOMAIN inflight
    /\ inflight[i].op = "position"
    /\ inflight[i].pc = "percentile"
    /\ resp' = [op |-> "position", status |-> 200,
                userId |-> inflight[i].userId,
                totalPoints |-> inflight[i].seenTotal,
                rank |-> inflight[i].rank,
                badge |-> getRankBadge(inflight[i].rank),
                context |-> inflight[i].context,
                totalUsers |-> inflight[i].totalUsers,
                percentile |-> percentile(inflight[i].rank, totalUsers(users)),
                start |-> inflight[i].start]
    /\ inflight' = RemoveAt(inflight, i)
    /\ UNCHANGED <<users, claims, applied, revokes, dash, timers>>

\* A store call of the position handler throws: the catch block answers 500.
PositionFailed(i) ==
    /\ Idle
    /\ i \in DOMAIN inflight
    /\ inflight[i].op = "position"
    /\ resp' = Response("position", 500)
    /\ inflight' = RemoveAt(inflight, i)
    /\ UNCHANGED <<users, claims, applied, revokes, dash, timers>>

---------------------------------------------------------------------------
\* The windowed leaderboard: GET /api/leaderboard/top/:period.

\* Bounds of the windowed model.
MaxWinUsers == 2
MaxWinClaims == 3

PeriodInputs == {"today", "week", "month", "year", "decade"}

\* Days between a date and the same date one month, one year earlier.
MonthLengths == {28, 31}
YearLengths == {365, 366}

\* start.setHours(0, 0, 0, 0)
StartOfDay(t) == t - (t % 24)

\* getDateRange(period) returns null.
NoDateRange(period) == period \notin {"today", "week", "month", "year"}

\* getDateRange(period) at the time now, in a month and a year of the given
\* lengths.
getDateRange(period, now, monthDays, yearDays) ==
    [start |-> CASE period = "today" -> StartOfDay(now)
                 [] period = "week" -> now - 7 * 24
                 [] period = "month" -> now - monthDays * 24
                 [] period = "year" -> now - yearDays * 24,
     end |-> now]

\* A $match that does not look at isValid.
MatchWindowAnyValidity(cs, range) ==
    SelectSeq(cs, LAMBDA c : c.createdAt >= range.start /\ c.createdAt <= range.end)

\* $match {isValid: true, createdAt: {$gte: start, $lte: end}}
MatchWindow(cs, range) ==
    SelectSeq(cs, LAMBDA c : /\ c.isValid
                             /\ c.createdAt >= range.start
                             /\ c.createdAt <= range.end)

\* $sum: '$points' over the documents of the group id.
RECURSIVE SumPoints(_, _)
SumPoints(docs, id) ==
    IF docs = << >> THEN 0
    ELSE (IF Head(docs).userId = id THEN Head(docs).points ELSE 0)
         + SumPoints(Tail(docs), id)

\* $group by userId, $lookup and $unwind of the user, $match
\* {'user.isActive': true}, $project.
GroupRows(docs, us) ==
    {[id |-> id,
      periodPoints |-> SumPoints(docs, id),
      periodClaims |-> Cardinality({i \in DOMAIN docs : docs[i].userId = id}),
      totalPoints |-> us[id].totalPoints]
        : id \in {u \in {docs[i].userId : i \in DOMAIN docs} :
                     u \in DOMAIN us /\ us[u].isActive}}

\* A $sort that orders by periodPoints only.
SortedRowsByPoints(rows) ==
    {s \in [1..Cardinality(rows) -> rows] :
        /\ \A j, k \in DOMAIN s : j # k => s[j] # s[k]
        /\ \A j, k \in DOMAIN s : j < k => s[j].periodPoints >= s[k].periodPoints}

\* $sort {periodPoints: -1, periodClaims: -1}: the orders of the rows the stage
\* may produce; rows equal in both keys come in any order.
SortedRows(rows) ==
    {s \in [1..Cardinality(rows) -> rows] :
        /\ \A j, k \in DOMAIN s : j # k => s[j] # s[k]
        /\ \A j, k \in DOMAIN s : j < k =>
              \/ s[j].periodPoints > s[k].periodPoints
              \/ /\ s[j].periodPoints = s[k].periodPoints
                 /\ s[j].periodClaims >= s[k].periodClaims}

\* topUsers.map((user, index) => ({...user, rank: index + 1, badge: ...}))
WindowWithRanks(rows) ==
    [k \in DOMAIN rows |->
        [id |-> rows[k].id, periodPoints |-> rows[k].periodPoints,
         periodClaims |-> rows[k].periodClaims,
         totalPoints |-> rows[k].totalPoints,
         rank |-> k, badge |-> getRankBadge(k)]]

\* A ledger of at most MaxWinClaims claims in creation order, some of them
\* revoked, and the aggregates the routes have derived from it.
InitWindow ==
    \E n \in 0..MaxWinClaims :
    \E cs \in [1..n -> [userId : 1..MaxWinUsers, points : {1, 2},
                        claimType : {"manual"}, isValid : BOOLEAN,
                        createdAt : CreatedAtInputs]] :
        /\ \A j, k \in 1..n : j < k => cs[j].createdAt <= cs[k].createdAt
        /\ claims = cs
        /\ users = [u \in 1..MaxWinUsers |->
                      [isActive |-> TRUE,
                       totalPoints |-> ValidPoints(cs, u, n),
                       claimsCount |-> ValidCount(cs, u, n)]]
        /\ applied = [u \in 1..MaxWinUsers |->
                        [points |-> ValidPoints(cs, u, n),
                         count |-> ValidCount(cs, u, n)]]
        /\ inflight = << >>
        /\ resp = NoResponse
        /\ revokes = 0
        /\ dash = NoDashboard
        /\ timers = << >>

\* getDateRange returns null: 400.
WindowedInvalidPeriod(period) ==
    /\ Idle
    /\ Len(inflight) < MaxQueries
    /\ NoDateRange(period)
    /\ resp' = Response("top", 400)
    /\ UNCHANGED <<users, claims, inflight, applied, revokes, dash, timers>>

\* Claim.aggregate throws, as it does for every $limit that is not positive:
\* the catch block answers 500.
WindowedFailed(period) ==
    /\ Idle
    /\ Len(inflight) < MaxQueries
    /\ ~NoDateRange(period)
    /\ resp' = Response("top", 500)
    /\ UNCHANGED <<users, claims, inflight, applied, revokes, dash, timers>>

\* The pipeline runs and res.json answers the ranked rows.
WindowedLeaderboard(period, limit, now, monthDays, yearDays) ==
    /\ Idle
    /\ Len(inflight) < MaxQueries
    /\ ~NoDateRange(period)
    /\ limitNum(limit) > 0
    /\ LET range == getDateRange(period, now, monthDays, yearDays)
           rows == GroupRows(MatchWindow(claims, range), users)
       IN  \E sorted \in SortedRows(rows) :
              resp' = [op |-> "top", status |-> 200, period |-> period,
                       requestedLimit |-> limitNum(limit),
                       start |-> range.start, end |-> range.end,
                       leaderboard |->
                          WindowWithRanks(SkipLimit(sorted, 0, limitNum(limit)))]
    /\ UNCHANGED <<users, claims, inflight, applied, revokes, dash, timers>>

---------------------------------------------------------------------------
\* The ranking routes over a store of up to MaxRankUsers users.

NextRank ==
    \/ \E id \in RankIdInputs : RankDeactivate(id)
    \/ \E limit \in LimitInputs :
          GlobalLeaderboard(limit) \/ GlobalLeaderboardFailed(limit)
    \/ \E period \in PeriodInputs :
          \/ WindowedInvalidPeriod(period)
          \/ WindowedFailed(period)
          \/ \E limit \in LimitInputs, now \in NowInputs,
                monthDays \in MonthLengths, yearDays \in YearLengths :
                WindowedLeaderboard(period, limit, now, monthDays, yearDays)
    \/ \E uid \in RankIdInputs : PositionUnknown(uid) \/ PositionFind(uid)
    \/ \E i \in 1..MaxQueries :
          \/ PositionRank(i)
          \/ PositionContext(i)
          \/ PositionTotalUsers(i)
          \/ PositionRespond(i)
          \/ PositionFailed(i)
    \/ ResponseSent

SpecRank == InitRank /\ [][NextRank]_vars

---------------------------------------------------------------------------
\* The ranking routes over a population large enough for every badge tier.

MaxBadgeUsers == 52

BadgeLimitInputs == {NoLimit, MaxBadgeUsers}

\* n registered users of which none, or all but the last, hold one accepted
\* 1-point claim.
InitBadge ==
    \E n \in 0..MaxBadgeUsers :
    \E k \in {0, n - 1} \cap (0..n) :
        LET totals == [u \in 1..n |-> IF u <= k THEN 1 ELSE 0] IN
        /\ users = [u \in 1..n |->
                      [isActive |-> TRUE, totalPoints |-> totals[u],
                       claimsCount |-> totals[u]]]
        /\ claims = LedgerOf(totals, n)
        /\ applied = [u \in 1..n |-> [points |-> totals[u], count |-> totals[u]]]
        /\ inflight = << >>
        /\ resp = NoResponse
        /\ revokes = 0
        /\ dash = NoDashboard
        /\ timers = << >>

\* The leaderboard, and the position of the first and of the last registered
\* user.
NextBadge ==
    \/ \E limit \in BadgeLimitInputs : GlobalLeaderboard(limit)
    \/ \E uid \in {1, Len(users)} : PositionFind(uid)
    \/ \E i \in 1..MaxQueries :
          \/ PositionRank(i)
          \/ PositionContext(i)
          \/ PositionTotalUsers(i)
          \/ PositionRespond(i)
    \/ ResponseSent

SpecBadge == InitBadge /\ [][NextBadge]_vars

\* The windowed leaderboard over a ledger of claims of different ages.
NextWindow ==
    \/ \E id \in UserIdInputs : DeactivateUser(id)
    \/ \E period \in PeriodInputs :
          \/ WindowedInvalidPeriod(period)
          \/ WindowedFailed(period)
          \/ \E limit \in LimitInputs, now \in NowInputs,
                monthDays \in MonthLengths, yearDays \in YearLengths :
                WindowedLeaderboard(period, limit, now, monthDays, yearDays)
    \/ ResponseSent

SpecWindow == InitWindow /\ [][NextWindow]_vars

---------------------------------------------------------------------------
\* Vocabulary of the ranking properties.

\* v stands ahead of u in the order totalPoints descending, createdAt
\* ascending (the users are numbered in creation order).
RanksAhead(v, u) ==
    \/ users[v].totalPoints > users[u].totalPoints
    \/ (users[v].totalPoints = users[u].totalPoints /\ v < u)

\* The place of the active user u in that order among the active users.
Place(u) ==
    1 + Cardinality({v \in DOMAIN users : users[v].isActive /\ RanksAhead(v, u)})

NumActive == Cardinality({v \in DOMAIN users : users[v].isActive})

\* The response is a position answer 200 of a query during which the users
\* collection did not change.
PositionAnswer ==
    /\ resp.op = "position"
    /\ resp.status = 200
    /\ resp.start = users

\* C12: the global leaderboard with limit N lists the first min(N, number of
\* active participants) active participants in the order totalPoints
\* descending, createdAt ascending, with the ranks 1, 2, ..., k in that order.
C12_GlobalLeaderboard ==
    (resp.op = "leaderboard" /\ resp.status = 200) =>
        LET lb == resp.leaderboard IN
        /\ Len(lb) = Min(resp.requestedLimit, NumActive)
        /\ \A k \in DOMAIN lb :
              /\ lb[k].rank = k
              /\ lb[k].id \in DOMAIN users
              /\ users[lb[k].id].isActive
              /\ Place(lb[k].id) = k

\* C13: the position query for the active participant P answers
\* rank = 1 + (number of active participants with strictly more totalPoints),
\* so participants with equal totalPoints get the same rank.
C13_PositionRank ==
    PositionAnswer =>
        resp.rank = 1 + Cardinality({v \in DOMAIN users :
                            /\ users[v].isActive
                            /\ users[v].totalPoints > users[resp.userId].totalPoints})

\* C13 witness: the second of two participants with equal totalPoints is
\* answered rank 1, the rank of the first, while a third one has fewer points.
C13_Witness ==
    /\ PositionAnswer
    /\ resp.userId = 2
    /\ resp.rank = 1
    /\ users[1].isActive
    /\ users[1].totalPoints = users[2].totalPoints
    /\ \E v \in DOMAIN users :
          users[v].isActive /\ users[v].totalPoints < users[2].totalPoints

\* C18: the percentile of a position answer is
\* round((1 - (rank - 1) / totalActiveParticipants) * 100), the integer p with
\* p - 1/2 <= 100 * (total - rank + 1) / total < p + 1/2, and for a fixed
\* number of participants it does not increase when the rank increases.
C18_Percentile ==
    /\ PositionAnswer =>
          LET t == NumActive
              x == 200 * (t - (resp.rank - 1))
          IN  /\ 2 * t * resp.percentile - t <= x
              /\ x < 2 * t * resp.percentile + t
    /\ \A i \in DOMAIN inflight :
          (inflight[i].op = "position" /\ inflight[i].pc = "percentile") =>
              \A r \in 1..inflight[i].rank :
                  percentile(r, inflight[i].totalUsers)
                      >= percentile(inflight[i].rank, inflight[i].totalUsers)

\* C18 witness: rank 3 of 6 participants is answered the percentile 67, the
\* quotient 66.67 rounded up.
C18_Witness ==
    /\ PositionAnswer
    /\ resp.rank = 3
    /\ NumActive = 6
    /\ resp.percentile = 67

\* C19: the neighborhood of a position answer for P contains P and every
\* participant at most 2 places before or after P in the order totalPoints
\* descending, createdAt ascending of the active participants.
C19_Neighborhood ==
    PositionAnswer =>
        \A v \in DOMAIN users :
            (/\ users[v].isActive
             /\ Place(v) >= Place(resp.userId) - 2
             /\ Place(v) <= Place(resp.userId) + 2)
               => \E k \in DOMAIN resp.context : resp.context[k].id = v

\* C20: with at least 5 active participants the neighborhood of a position
\* answer has 5 entries, also when P is within 2 places of the top or of the
\* bottom of the order.
C20_NeighborhoodClamped ==
    (PositionAnswer /\ NumActive >= 5) => Len(resp.context) = 5

\* The badge tiers: 1 Gold, 2 Silver, 3 Bronze, 4 to 10 Top 10, 11 to 50
\* Top 50, above 50 Ranked.
BadgeTier(rank) ==
    CASE rank = 1 -> "Gold"
      [] rank = 2 -> "Silver"
      [] rank = 3 -> "Bronze"
      [] rank \in 4..10 -> "Top 10"
      [] rank \in 11..50 -> "Top 50"
      [] OTHER -> "Ranked"

---------------------------------------------------------------------------
\* Vocabulary of the windowed properties.

\* The response is a windowed leaderboard answer 200.
WindowAnswer == resp.op = "top" /\ resp.status = 200

\* Claim c is valid and was created inside the window of the response.
InWindow(c) ==
    /\ claims[c].isValid
    /\ claims[c].createdAt >= resp.start
    /\ claims[c].createdAt <= resp.end

\* The points of the claims of user u inside the window, among the first n
\* claims.
RECURSIVE PointsInWindow(_, _)
PointsInWindow(u, n) ==
    IF n = 0 THEN 0
    ELSE (IF claims[n].userId = u /\ InWindow(n) THEN claims[n].points ELSE 0)
         + PointsInWindow(u, n - 1)

ClaimsInWindow(u) == {c \in DOMAIN claims : claims[c].userId = u /\ InWindow(c)}

\* The active users with at least one valid claim inside the window.
Eligible == {u \in DOMAIN users : users[u].isActive /\ ClaimsInWindow(u) # {}}

\* C14: the window of 'today' starts at the local midnight before now, that of
\* 'week' 7 days, of 'month' one calendar month and of 'year' one calendar
\* year before now; every listed participant's periodPoints and periodClaims
\* are the sum and the count of that participant's valid claims created
\* inside the window, and a participant without such a claim is not listed.
C14_WindowedTotals ==
    WindowAnswer =>
        /\ resp.period = "today" =>
              (resp.start % 24 = 0 /\ resp.start <= resp.end
                                   /\ resp.end - resp.start < 24)
        /\ resp.period = "week" => resp.end - resp.start = 7 * 24
        /\ resp.period = "month" => (resp.end - resp.start) \in {d * 24 : d \in 28..31}
        /\ resp.period = "year" => (resp.end - resp.start) \in {d * 24 : d \in 365..366}
        /\ \A k \in DOMAIN resp.leaderboard :
              LET e == resp.leaderboard[k] IN
              /\ e.periodPoints = PointsInWindow(e.id, Len(claims))
              /\ e.periodClaims = Cardinality(ClaimsInWindow(e.id))
              /\ e.periodClaims >= 1

\* C14 witness: the answer for 'today' lists one participant; the other one
\* is active and holds points from a valid claim created 8 days ago, and is
\* not listed.
C14_Witness ==
    /\ WindowAnswer
    /\ resp.period = "today"
    /\ Len(resp.leaderboard) = 1
    /\ \E u \in DOMAIN users :
          /\ users[u].isActive
          /\ users[u].totalPoints > 0
          /\ resp.leaderboard[1].id # u
          /\ \E c \in DOMAIN claims :
                /\ claims[c].userId = u
                /\ claims[c].isValid
                /\ claims[c].createdAt < resp.end - 7 * 24

\* C15: a windowed leaderboard answer with limit N has exactly min(N, number
\* of active participants with a valid claim inside the window) entries, of
\* different participants, ordered by periodPoints descending and then
\* periodClaims descending, with the ranks 1..k in that order.
C15_WindowedOrder ==
    WindowAnswer =>
        LET lb == resp.leaderboard IN
        /\ Len(lb) = Min(resp.requestedLimit, Cardinality(Eligible))
        /\ \A k \in DOMAIN lb : lb[k].rank = k /\ lb[k].id \in Eligible
        /\ \A j, k \in DOMAIN lb : j < k =>
              /\ lb[j].id # lb[k].id
              /\ \/ lb[j].periodPoints > lb[k].periodPoints
                 \/ /\ lb[j].periodPoints = lb[k].periodPoints
                    /\ lb[j].periodClaims >= lb[k].periodClaims

\* C15 witness: two participants with equal periodPoints are listed, the one
\* with more claims first.
C15_Witness ==
    /\ WindowAnswer
    /\ Len(resp.leaderboard) = 2
    /\ resp.leaderboard[1].periodPoints = resp.leaderboard[2].periodPoints
    /\ resp.leaderboard[1].periodClaims > resp.leaderboard[2].periodClaims

\* C16: an inactive participant is never activated again; a step that
\* deactivates a participant leaves the ledger as it is; and no read of a
\* ranking route sees an inactive participant: the entries of a global or
\* windowed leaderboard answer and of the neighborhood a position query reads
\* are active participants, the rank a position query computes counts active
\* participants only and so does its population count, and no position query
\* is started for an inactive participant.
C16_InactiveExcluded ==
    [][/\ \A u \in DOMAIN users :
             /\ (~users[u].isActive) => ~users'[u].isActive
             /\ (users[u].isActive /\ ~users'[u].isActive) => claims' = claims
       /\ (resp' # resp /\ resp'.op \in {"leaderboard", "top"} /\ resp'.status = 200)
             => \A k \in DOMAIN resp'.leaderboard :
                    users[resp'.leaderboard[k].id].isActive
       /\ \A i \in DOMAIN inflight' :
             LET r == inflight'[i] IN
             (r.op = "position" /\ (i \notin DOMAIN inflight \/ inflight[i] # r)) =>
                /\ r.pc = "above" => users[r.userId].isActive
                /\ r.pc = "context" =>
                      r.rank = 1 + Cardinality({v \in DOMAIN users :
                                      /\ users[v].isActive
                                      /\ users[v].totalPoints > r.seenTotal})
                /\ r.pc = "total" =>
                      \A k \in DOMAIN r.context : users[r.context[k].id].isActive
                /\ r.pc = "percentile" => r.totalUsers = NumActive]_vars

\* C16 witness: a participant holding a valid claim is inactive and a
\* windowed leaderboard answer lists other participants but not that one.
C16_Witness ==
    /\ WindowAnswer
    /\ Len(resp.leaderboard) >= 2
    /\ \E u \in DOMAIN users :
          /\ ~users[u].isActive
          /\ \E c \in DOMAIN claims : claims[c].userId = u /\ claims[c].isValid
          /\ \A k \in DOMAIN resp.leaderboard : resp.leaderboard[k].id # u

---------------------------------------------------------------------------
\* lastActivity: the claim routes over documents that carry their timestamps.
\* A user holds lastActivity (default: Date.now at creation); a claim holds
\* createdAt and updatedAt, which Mongoose's timestamps option sets on save and
\* on findByIdAndUpdate.

\* Bound of the clock: new Date() is one of the instants 1..MaxTime.
MaxTime == 3

\* The instant the users of this model were created at.
CreationTime == 0

\* The latest instant stored in the collections us and cs.
LatestTime(us, cs) ==
    LET stamps == {CreationTime}
                    \cup {us[u].lastActivity : u \in DOMAIN us}
                    \cup {cs[c].createdAt : c \in DOMAIN cs}
                    \cup {cs[c].updatedAt : c \in DOMAIN cs}
    IN  CHOOSE t \in stamps : \A x \in stamps : x <= t

\* new Date(): the clock never runs backwards, so it reads no instant before
\* one that is already stored.
ClockReads(t) == t \in 1..MaxTime /\ t >= LatestTime(users, claims)

\* The claim document of request r, saved at instant t.
TimedClaimDoc(r, t) ==
    [userId |-> r.userId, points |-> r.points, claimType |-> r.claimType,
     isValid |-> TRUE, createdAt |-> t, updatedAt |-> t]

\* $set: {lastActivity: new Date()} of the post('save') hook's update.
SetLastActivity(us, id, t) ==
    IF id \in DOMAIN us THEN [us EXCEPT ![id].lastActivity = t] ELSE us

\* MaxUsers registered users without a claim.
InitActivity ==
    /\ users = [u \in 1..MaxUsers |->
                  [isActive |-> TRUE, totalPoints |-> 0, claimsCount |-> 0,
                   lastActivity |-> CreationTime]]
    /\ claims = << >>
    /\ inflight = << >>
    /\ resp = NoResponse
    /\ applied = [u \in 1..MaxUsers |-> [points |-> 0, count |-> 0]]
    /\ revokes = 0
    /\ dash = NoDashboard
    /\ timers = << >>

\* claim.save() inserts the document at instant t; the post('save') hook is
\* pending.
TimedSubmitSave(i, t) ==
    /\ Idle
    /\ i \in DOMAIN inflight
    /\ inflight[i].op = "submit"
    /\ inflight[i].pc = "save"
    /\ SchemaValid(ClaimDoc(inflight[i]))
    /\ PreSaveOk(ClaimDoc(inflight[i]))
    /\ ClockReads(t)
    /\ claims' = Append(claims, TimedClaimDoc(inflight[i], t))
    /\ inflight' = [inflight EXCEPT ![i].pc = "hook",
                                    ![i].claimId = Len(claims) + 1]
    /\ UNCHANGED <<users, resp, applied, revokes, dash, timers>>

\* The post('save') hook's update, built at instant t, is applied: the $inc
\* and $set: {lastActivity: new Date()}.  Then the handler answers 201.
TimedSubmitPostSave(i, t) ==
    /\ Idle
    /\ i \in DOMAIN inflight
    /\ inflight[i].op = "submit"
    /\ inflight[i].pc = "hook"
    /\ ClockReads(t)
    /\ users' = SetLastActivity(PostSaveUpdate(users, inflight[i]),
                                inflight[i].userId, t)
    /\ applied' = IncApplied(applied, inflight[i].userId, inflight[i].points, 1)
    /\ inflight' = RemoveAt(inflight, i)
    /\ resp' = Response("submit", 201)
    /\ UNCHANGED <<claims, revokes, dash, timers>>

\* Claim.findByIdAndUpdate(id, {isValid: false}) at instant t: the claim is
\* invalid and its updatedAt is t; the handler awaits the update of the user.
TimedRevokeInvalidate(cid, t) ==
    /\ Idle
    /\ cid \in DOMAIN claims
    /\ Len(inflight) < MaxInflight
    /\ (~claims[cid].isValid) => revokes < MaxRevokes
    /\ ClockReads(t)
    /\ claims' = [Invalidate(claims, cid) EXCEPT ![cid].updatedAt = t]
    /\ inflight' = Append(inflight,
          Request("revoke", "dec", claims[cid].userId, claims[cid].points,
                  claims[cid].claimType, cid, claims[cid].isValid, 0, 0))
    /\ revokes' = IF claims[cid].isValid THEN revokes ELSE revokes + 1
    /\ UNCHANGED <<users, resp, applied, dash, timers>>

\* The update of the user that the revoke issues next is RevokeDecrement: its
\* update holds the $inc alone, and findByIdAndUpdate runs no save middleware,
\* so the pre('save') hook of the user schema does not run either.

NextActivity ==
    \/ \E uid \in UserIdInputs, pts \in PointInputs, type \in TypeInputs,
          digit \in RandomDigits : SubmitAccepted(uid, pts, type, digit)
    \/ \E i \in 1..MaxInflight :
          \/ SubmitSaveInvalid(i)
          \/ \E t \in 1..MaxTime : TimedSubmitSave(i, t) \/ TimedSubmitPostSave(i, t)
          \/ RevokeDecrement(i)
    \/ \E cid \in ClaimIdInputs, t \in 1..MaxTime : TimedRevokeInvalidate(cid, t)
    \/ ResponseSent

SpecActivity == InitActivity /\ [][NextActivity]_vars

\* Claim c has been written and no handler still owes the user an update for
\* it.
Settled(c) == \A i \in DOMAIN inflight : inflight[i].claimId # c

\* C21: once the submission that wrote a claim has finished, the participant's
\* lastActivity is not earlier than the instant the claim was created at; and
\* once the invalidation of a claim has finished, the participant's
\* lastActivity is not earlier than the instant of the invalidation.
C21_LastActivity ==
    \A c \in DOMAIN claims :
        Settled(c) =>
            /\ users[claims[c].userId].lastActivity >= claims[c].createdAt
            /\ (~claims[c].isValid) =>
                  users[claims[c].userId].lastActivity >= claims[c].updatedAt

---------------------------------------------------------------------------
\* The claim history: GET /api/claims/user/:userId.

\* The limits the model asks the history with.
HistoryLimitInputs == {NoLimit, 0, 1, 2}

\* const { limit = 50 } = req.query; parseInt(limit)
HistoryDefaultLimit == 50
historyLimit(limit) == IF limit = NoLimit THEN HistoryDefaultLimit ELSE limit

\* The filter {userId, isValid: true}: the ids of the matching claims.
HistoryMatch(cs, uid) == {c \in DOMAIN cs : cs[c].userId = uid /\ cs[c].isValid}

\* sort({createdAt: -1}): the orders of the matching claims the store may
\* return; claims created at the same instant come in any order.
HistorySorted(cs, uid) ==
    LET ids == HistoryMatch(cs, uid) IN
    {s \in [1..Cardinality(ids) -> ids] :
        /\ \A j, k \in DOMAIN s : j # k => s[j] # s[k]
        /\ \A j, k \in DOMAIN s : j < k => cs[s[j]].createdAt >= cs[s[k]].createdAt}

\* claimSchema.statics.getUserClaimHistory(userId, limit): the results the
\* query may produce, each a sequence of claim ids.
getUserClaimHistory(cs, uid, limit) ==
    {SkipLimit(s, 0, limit) : s \in HistorySorted(cs, uid)}

\* The history handler suspended at the await of the claims.
HistoryRequest(uid, limit, seenTotal, seenCount) ==
    [op |-> "history", pc |-> "claims", userId |-> uid, limit |-> limit,
     seenTotal |-> seenTotal, seenCount |-> seenCount, claimId |-> 0]

\* User.findById finds no user, or the id is malformed: 404.
HistoryUnknown(uid, limit) ==
    /\ Idle
    /\ Len(inflight) < MaxQueries
    /\ ~(ValidUserId(uid) /\ UserExists(uid))
    /\ resp' = Response("history", 404)
    /\ UNCHANGED <<users, claims, inflight, applied, revokes, dash, timers>>

\* User.findById finds the user, active or not; the handler awaits the claims.
HistoryFind(uid, limit) ==
    /\ Idle
    /\ Len(inflight) < MaxQueries
    /\ ValidUserId(uid)
    /\ UserExists(uid)
    /\ inflight' = Append(inflight,
          HistoryRequest(uid, historyLimit(limit), users[uid].totalPoints,
                         users[uid].claimsCount))
    /\ UNCHANGED <<users, claims, resp, applied, revokes, dash, timers>>

\* The claims arrive and res.json answers the user read before and the claims.
HistoryRead(i) ==
    /\ Idle
    /\ i \in DOMAIN inflight
    /\ inflight[i].op = "history"
    /\ \E ids \in getUserClaimHistory(claims, inflight[i].userId, inflight[i].limit) :
          resp' = [op |-> "history", status |-> 200,
                   userId |-> inflight[i].userId,
                   requestedLimit |-> inflight[i].limit,
                   totalPoints |-> inflight[i].seenTotal,
                   claimsCount |-> inflight[i].seenCount,
                   claims |-> [k \in DOMAIN ids |->
                                  [id |-> ids[k],
                                   userId |-> claims[ids[k]].userId,
                                   points |-> claims[ids[k]].points,
                                   isValid |-> claims[ids[k]].isValid,
                                   createdAt |-> claims[ids[k]].createdAt]]]
    /\ inflight' = RemoveAt(inflight, i)
    /\ UNCHANGED <<users, claims, applied, revokes, dash, timers>>

\* Claim.getUserClaimHistory throws: the catch block answers 500.
HistoryFailed(i) ==
    /\ Idle
    /\ i \in DOMAIN inflight
    /\ inflight[i].op = "history"
    /\ resp' = Response("history", 500)
    /\ inflight' = RemoveAt(inflight, i)
    /\ UNCHANGED <<users, claims, applied, revokes, dash, timers>>

\* The history route, and revokes that run while a history handler waits, over
\* a ledger of claims of different ages.
NextHistory ==
    \/ \E uid \in UserIdInputs, limit \in HistoryLimitInputs :
          HistoryUnknown(uid, limit) \/ HistoryFind(uid, limit)
    \/ \E i \in 1..MaxInflight :
          \/ HistoryRead(i)
          \/ HistoryFailed(i)
          \/ RevokeDecrement(i)
    \/ \E cid \in ClaimIdInputs : RevokeInvalidate(cid)
    \/ ResponseSent

SpecHistory == InitWindow /\ [][NextHistory]_vars

\* The response is a history answer 200.
HistoryAnswer == resp.op = "history" /\ resp.status = 200

\* C22: the history of participant P with limit L lists at most L claims, all
\* of them claims of P that are valid, no claim twice, in the order createdAt
\* descending.
C22_History ==
    HistoryAnswer =>
        LET h == resp.claims IN
        /\ Len(h) <= resp.requestedLimit
        /\ \A k \in DOMAIN h :
              /\ h[k].userId = resp.userId
              /\ h[k].isValid
              /\ claims[h[k].id].isValid
        /\ \A j, k \in DOMAIN h : j < k =>
              h[j].id # h[k].id /\ h[j].createdAt >= h[k].createdAt

---------------------------------------------------------------------------
\* The whole API over one store: the claim routes with their timestamps, the
\* ranking, history and statistics queries, and the update and deactivation of
\* a user.  A user carries its email, the field PUT /api/users/:id writes.

\* An email that fails validateUser's isEmail().
BadEmail == 0

\* The email user u registered with, and the emails of the update requests.
EmailOf(u) == u
EmailInputs == {BadEmail, 1, MaxUsers + 1}

\* body('email').trim().isEmail()
ValidEmail(email) == email # BadEmail

\* User.findOne({email, _id: {$ne: id}}) finds a document.
EmailTaken(us, id, email) == \E v \in DOMAIN us : v # id /\ us[v].email = email

\* A findByIdAndUpdate that resets the aggregate together with the email.
UpdateEmailResetting(us, id, email) ==
    [us EXCEPT ![id].email = email, ![id].totalPoints = 0, ![id].claimsCount = 0]

\* User.findByIdAndUpdate(id, {email}, {new: true, runValidators: true})
UpdateEmail(us, id, email) == [us EXCEPT ![id].email = email]

\* The sum of f[x] over the x in S.
RECURSIVE SumOver(_, _)
SumOver(f, S) ==
    IF S = {} THEN 0
    ELSE LET x == CHOOSE y \in S : TRUE IN f[x] + SumOver(f, S \ {x})

\* User.aggregate([{$match: {isActive: true}}, {$group: {_id: null, ...}}]) of
\* GET /api/users/stats/summary; the answer for an empty group is all zeros.
UserStatsSummary(us) ==
    [totalUsers |-> Cardinality(ActiveUsers(us)),
     totalPoints |-> SumOver([u \in DOMAIN us |-> us[u].totalPoints], ActiveUsers(us)),
     totalClaims |-> SumOver([u \in DOMAIN us |-> us[u].claimsCount], ActiveUsers(us))]

\* claimSchema.statics.getTodayStats at the instant now: $match {createdAt:
\* {$gte: startOfDay}, isValid: true}, $group with the two sums.
getTodayStats(cs, now) ==
    LET today == {c \in DOMAIN cs : cs[c].isValid /\ cs[c].createdAt >= StartOfDay(now)}
    IN  [totalPoints |-> SumOver([c \in DOMAIN cs |-> cs[c].points], today),
         totalClaims |-> Cardinality(today)]

\* MaxUsers registered users without a claim.
InitApi ==
    /\ users = [u \in 1..MaxUsers |->
                  [isActive |-> TRUE, totalPoints |-> 0, claimsCount |-> 0,
                   lastActivity |-> CreationTime, email |-> EmailOf(u)]]
    /\ claims = << >>
    /\ inflight = << >>
    /\ resp = NoResponse
    /\ applied = [u \in 1..MaxUsers |-> [points |-> 0, count |-> 0]]
    /\ revokes = 0
    /\ dash = NoDashboard
    /\ timers = << >>

\* GET /api/users/stats/summary: 200 with the sums over the active users.
UserStats ==
    /\ Idle
    /\ Len(inflight) < MaxQueries
    /\ resp' = [op |-> "userstats", status |-> 200, stats |-> UserStatsSummary(users)]
    /\ UNCHANGED <<users, claims, inflight, applied, revokes, dash, timers>>

\* GET /api/claims/stats/today at the instant now: 200 with today's sums.
TodayStats(now) ==
    /\ Idle
    /\ Len(inflight) < MaxQueries
    /\ ClockReads(now)
    /\ resp' = [op |-> "todaystats", status |-> 200, stats |-> getTodayStats(claims, now)]
    /\ UNCHANGED <<users, claims, inflight, applied, revokes, dash, timers>>

\* GET /api/leaderboard/top/:period at an instant the clock reads.
WindowedLeaderboardNow(period, limit, now, monthDays, yearDays) ==
    /\ ClockReads(now)
    /\ WindowedLeaderboard(period, limit, now, monthDays, yearDays)

\* PUT /api/users/:id: the validation middleware answers 400.
UpdateRejected(id, email) ==
    /\ Idle
    /\ Len(inflight) < MaxQueries
    /\ ~ValidEmail(email)
    /\ resp' = Response("update", 400)
    /\ UNCHANGED <<users, claims, inflight, applied, revokes, dash, timers>>

\* Another user holds the email: 400.
UpdateEmailTaken(id, email) ==
    /\ Idle
    /\ Len(inflight) < MaxQueries
    /\ ValidEmail(email)
    /\ EmailTaken(users, id, email)
    /\ resp' = Response("update", 400)
    /\ UNCHANGED <<users, claims, inflight, applied, revokes, dash, timers>>

\* No other user holds the email; the handler awaits findByIdAndUpdate.
UpdateCheck(id, email) ==
    /\ Idle
    /\ Len(inflight) < MaxQueries
    /\ ValidEmail(email)
    /\ ~EmailTaken(users, id, email)
    /\ inflight' = Append(inflight,
          [op |-> "update", pc |-> "write", userId |-> id, email |-> email,
           claimId |-> 0])
    /\ UNCHANGED <<users, claims, resp, applied, revokes, dash, timers>>

\* findByIdAndUpdate finds no user, or the id is malformed: 404.
UpdateUnknown(i) ==
    /\ Idle
    /\ i \in DOMAIN inflight
    /\ inflight[i].op = "update"
    /\ ~UserExists(inflight[i].userId)
    /\ resp' = Response("update", 404)
    /\ inflight' = RemoveAt(inflight, i)
    /\ UNCHANGED <<users, claims, applied, revokes, dash, timers>>

\* findByIdAndUpdate writes the email: 200.
UpdateWrite(i) ==
    /\ Idle
    /\ i \in DOMAIN inflight
    /\ inflight[i].op = "update"
    /\ UserExists(inflight[i].userId)
    /\ ~EmailTaken(users, inflight[i].userId, inflight[i].email)
    /\ users' = UpdateEmail(users, inflight[i].userId, inflight[i].email)
    /\ resp' = Response("update", 200)
    /\ inflight' = RemoveAt(inflight, i)
    /\ UNCHANGED <<claims, applied, revokes, dash, timers>>

\* DELETE /api/users/:id finds no user, or the id is malformed: 404.
DeactivateUnknown(id) ==
    /\ Idle
    /\ Len(inflight) < MaxQueries
    /\ ~UserExists(id)
    /\ resp' = Response("deactivate", 404)
    /\ UNCHANGED <<users, claims, inflight, applied, revokes, dash, timers>>

\* No handler is suspended: the writing requests of this model arrive one
\* after the other, each when the requests before it have been answered.
Serial == Len(inflight) < MaxQueries

SerialSubmitRejected(uid, pts, type) == Serial /\ SubmitRejected(uid, pts, type)
SerialSubmitUnknownUser(uid, pts, type) == Serial /\ SubmitUnknownUser(uid, pts, type)
SerialSubmitAccepted(uid, pts, type, digit) ==
    Serial /\ SubmitAccepted(uid, pts, type, digit)
SerialRevokeUnknown(cid) == Serial /\ RevokeUnknown(cid)
SerialRevokeInvalidate(cid, t) == Serial /\ TimedRevokeInvalidate(cid, t)
SerialDeactivate(id) == Serial /\ DeactivateUser(id)

\* The request bodies and the query parameters of this model; the id
\* MaxUsers + 1 is well-formed and names no user.
ApiUserIdInputs == {BadId} \cup (1..(MaxUsers + 1))
ApiPointInputs == {NoPoints, 0, 1}
ApiTypeInputs == {"bonus", "bogus"}
ApiDigits == {0}
ApiLimitInputs == {NoLimit}
ApiPeriodInputs == {"today", "decade"}

NextApi ==
    \/ \E uid \in ApiUserIdInputs, pts \in ApiPointInputs, type \in ApiTypeInputs :
          \/ SerialSubmitRejected(uid, pts, type)
          \/ SerialSubmitUnknownUser(uid, pts, type)
          \/ \E digit \in ApiDigits : SerialSubmitAccepted(uid, pts, type, digit)
    \/ \E i \in 1..MaxInflight :
          \/ SubmitSaveInvalid(i)
          \/ \E t \in 1..MaxTime : TimedSubmitSave(i, t) \/ TimedSubmitPostSave(i, t)
          \/ RevokeDecrement(i)
          \/ PositionRank(i)
          \/ PositionContext(i)
          \/ PositionTotalUsers(i)
          \/ PositionRespond(i)
          \/ HistoryRead(i)
          \/ UpdateUnknown(i)
          \/ UpdateWrite(i)
    \/ \E cid \in ClaimIdInputs :
          \/ SerialRevokeUnknown(cid)
          \/ \E t \in 1..MaxTime : SerialRevokeInvalidate(cid, t)
    \/ \E id \in ApiUserIdInputs :
          \/ SerialDeactivate(id)
          \/ DeactivateUnknown(id)
          \/ PositionUnknown(id)
          \/ PositionFind(id)
          \/ \E limit \in ApiLimitInputs :
                HistoryUnknown(id, limit) \/ HistoryFind(id, limit)
          \/ \E email \in EmailInputs :
                \/ UpdateRejected(id, email)
                \/ UpdateEmailTaken(id, email)
                \/ UpdateCheck(id, email)
    \/ \E limit \in ApiLimitInputs : GlobalLeaderboard(limit)
    \/ \E period \in ApiPeriodInputs :
          \/ WindowedInvalidPeriod(period)
          \/ \E limit \in ApiLimitInputs, now \in 1..MaxTime,
                monthDays \in MonthLengths, yearDays \in YearLengths :
                WindowedLeaderboardNow(period, limit, now, monthDays, yearDays)
    \/ UserStats
    \/ \E now \in 1..MaxTime : TodayStats(now)
    \/ ResponseSent

SpecApi == InitApi /\ [][NextApi]_vars

\* The aggregate of every user is the same before and after this step, and
\* so is every user's isActive.
UsersKept ==
    /\ DOMAIN users' = DOMAIN users
    /\ \A u \in DOMAIN users :
          /\ users'[u].totalPoints = users[u].totalPoints
          /\ users'[u].claimsCount = users[u].claimsCount
          /\ users'[u].isActive = users[u].isActive

\* The aggregate of every user is the same before and after this step.
AggregatesKept ==
    /\ DOMAIN users' = DOMAIN users
    /\ \A u \in DOMAIN users :
          /\ users'[u].totalPoints = users[u].totalPoints
          /\ users'[u].claimsCount = users[u].claimsCount

\* C24: a step that answers a validation error (400) or a not-found error
\* (404) leaves every claim record and every participant's totalPoints,
\* claimsCount and isActive unchanged.
C24_RejectedChangesNothing ==
    [][(resp' # resp /\ resp'.status \in {400, 404})
          => (claims' = claims /\ UsersKept)]_vars

\* C24 witness: a submission for a well-formed id that names no participant is
\* answered 404 while the ledger holds a valid claim of a participant with
\* points.
C24_Witness ==
    /\ resp = Response("submit", 404)
    /\ \A u \in DOMAIN users : users[u].isActive
    /\ \E c \in DOMAIN claims :
          claims[c].isValid /\ users[claims[c].userId].totalPoints > 0

\* This step is one of the two writes of a submission (the insert of the claim,
\* the update of the post('save') hook) or of an invalidation (the update of
\* the claim, the update of the user).
SubmissionOrInvalidationStep ==
    \/ \E i \in DOMAIN inflight :
          /\ inflight[i].op = "submit"
          /\ inflight[i].pc = "save"
          /\ i \in DOMAIN inflight'
          /\ inflight'[i].pc = "hook"
    \/ \E i \in DOMAIN inflight :
          inflight[i].op \in {"submit", "revoke"} /\ Completes(i)
    \/ /\ Len(inflight') = Len(inflight) + 1
       /\ inflight'[Len(inflight')].op = "revoke"

\* C25: a step that changes a claim record or a participant's totalPoints or
\* claimsCount is a write of a claim submission or of a claim invalidation; the
\* leaderboard, windowed leaderboard, position, history and statistics
\* queries and the update and the deactivation of a participant change none
\* of them.
C25_OnlyClaimsWrite ==
    [][/\ (claims' # claims \/ ~AggregatesKept) => SubmissionOrInvalidationStep
       /\ (resp' # resp
           /\ resp'.op \in {"leaderboard", "top", "position", "history",
                            "userstats", "todaystats", "update", "deactivate"})
             => (claims' = claims /\ AggregatesKept)
       /\ (\E u \in DOMAIN users :
              users'[u].isActive # users[u].isActive \/ users'[u].email # users[u].email)
             => (claims' = claims /\ AggregatesKept)]_vars

\* C25 witness: an update has been answered 200 and has changed the email of a
\* participant who holds points, and the other participant is deactivated.
C25_Witness ==
    /\ resp = Response("update", 200)
    /\ \E u \in DOMAIN users :
          /\ users[u].email # EmailOf(u)
          /\ users[u].totalPoints > 0
          /\ users[u].claimsCount > 0
    /\ \E u \in DOMAIN users : ~users[u].isActive

---------------------------------------------------------------------------
\* C26: in every position answer, also of a query during which participants
\* were deactivated, rank <= totalUsers and percentile is
\* round((1 - (rank - 1) / totalUsers) * 100) for the rank and the totalUsers
\* of that answer (the integer p with
\* p - 1/2 <= 100 * (totalUsers - rank + 1) / totalUsers < p + 1/2).
C26_ConsistentSnapshot ==
    (resp.op = "position" /\ resp.status = 200) =>
        LET t == resp.totalUsers
            x == 200 * (t - (resp.rank - 1))
        IN  /\ resp.rank <= t
            /\ 2 * t * resp.percentile - t <= x
            /\ x < 2 * t * resp.percentile + t

\* C27: in a position answer, the entry of the neighborhood flagged
\* isCurrentUser carries the rank and the badge the answer reports for the
\* participant, whatever the totals are, ties included.
C27_CurrentUserRank ==
    PositionAnswer =>
        \A k \in DOMAIN resp.context :
            resp.context[k].isCurrentUser =>
                /\ resp.context[k].rank = resp.rank
                /\ resp.context[k].badge = resp.badge

---------------------------------------------------------------------------
\* The dashboard (src/frontend/src/components/Dashboard.jsx) of one browser
\* against the server above.  In this part inflight holds the HTTP exchanges of
\* the browser, [op, origin, pc, status, data, userId, points]: pc is
\* "request" until the server has handled the request or the exchange has
\* failed, and "response" until the awaiting function of the dashboard
\* continues.  origin is the caller of the fetch: initializeApp ("init"), the
\* interval callback ("poll") or handleClaimPoints ("claim").
\* dash holds the component: mounted, the refs initialLoadComplete and
\* pollingIntervalRef, the state leaderboard, stats, loading.claiming
\* (claiming) and whether users is loaded, the fetches the Promise.all of
\* initializeApp (pending) and of handleClaimPoints (refreshing) still await,
\* and the number of clicks on the claim button.

\* setInterval(..., 3000): the seconds between two runs of the callback.
PollInterval == 3

\* leaderboardAPI.getLeaderboard(10)
DashLimit == 10

\* The exchanges a tick or a click may find under way, and the clicks on the
\* claim button.
MaxExchanges == 3
MaxClicks == 1

\* Math.floor(Math.random() * 10) + 1 of ClaimButton: two of the ten values.
DashPointInputs == {1, 2}

\* The status of an exchange that ended without a response: a network error or
\* the axios timeout.
NoAnswer == 0

\* api.get(...) / api.post(...): the request leaves the browser.
Exchange(op, origin, uid, pts) ==
    [op |-> op, origin |-> origin, pc |-> "request", status |-> NoAnswer,
     data |-> << >>, userId |-> uid, points |-> pts,
     claimType |-> "random"]

\* clearInterval(id)
ClearInterval(ts, id) ==
    IF id \in DOMAIN ts THEN [ts EXCEPT ![id].active = FALSE] ELSE ts

\* setInterval(callback, 3000); the id of the new interval is Len(ts) + 1.
SetInterval(ts) == Append(ts, [active |-> TRUE, left |-> PollInterval])

\* startPolling() is called once, by initializeApp: the browser has at most
\* the interval with the first id.
TimerIds == {1}

\* The intervals that are running.
ActiveTimers == {id \in DOMAIN timers : timers[id].active}

\* The Dashboard has been rendered and its effect has run: initializeApp has
\* called fetchUsers, fetchLeaderboard(true) and fetchStats and awaits the
\* three.  The store holds MaxUsers users without a claim.
InitDash ==
    /\ users = [u \in 1..MaxUsers |->
                  [isActive |-> TRUE, totalPoints |-> 0, claimsCount |-> 0]]
    /\ claims = << >>
    /\ applied = [u \in 1..MaxUsers |-> [points |-> 0, count |-> 0]]
    /\ resp = NoResponse
    /\ revokes = 0
    /\ inflight = << Exchange("users", "init", BadId, NoPoints),
                     Exchange("leaderboard", "init", BadId, NoPoints),
                     Exchange("stats", "init", BadId, NoPoints) >>
    /\ dash = [NoDashboard EXCEPT !.mounted = TRUE, !.pending = 3]
    /\ timers = << >>

\* The server answers exchange i with status and data.
Answered(i, status, data) ==
    [inflight EXCEPT ![i].pc = "response", ![i].status = status, ![i].data = data]

\* GET /api/leaderboard?limit=10 is handled.
ServeLeaderboard(i) ==
    /\ i \in DOMAIN inflight
    /\ inflight[i].pc = "request"
    /\ inflight[i].op = "leaderboard"
    /\ inflight' = Answered(i, 200, WithRanks(users, getTopUsers(users, DashLimit)))
    /\ UNCHANGED <<users, claims, resp, applied, revokes, dash, timers>>

\* GET /api/users/stats/summary is handled.
ServeStats(i) ==
    /\ i \in DOMAIN inflight
    /\ inflight[i].pc = "request"
    /\ inflight[i].op = "stats"
    /\ inflight' = Answered(i, 200, UserStatsSummary(users))
    /\ UNCHANGED <<users, claims, resp, applied, revokes, dash, timers>>

\* GET /api/users is handled: the answer lists the active users.
ServeUsers(i) ==
    /\ i \in DOMAIN inflight
    /\ inflight[i].pc = "request"
    /\ inflight[i].op = "users"
    /\ inflight' = Answered(i, 200, ActiveUsers(users))
    /\ UNCHANGED <<users, claims, resp, applied, revokes, dash, timers>>

\* POST /api/claims of the dashboard is handled: the points are in 1..10 and
\* the user is active, so the claim is saved, the post('save') hook updates
\* the user and the answer is 201.  No other request of this browser changes
\* the store, so the handler is taken as one step.
ServeClaim(i) ==
    /\ i \in DOMAIN inflight
    /\ inflight[i].pc = "request"
    /\ inflight[i].op = "claim"
    /\ claims' = Append(claims, ClaimDoc(inflight[i]))
    /\ users' = PostSaveUpdate(users, inflight[i])
    /\ applied' = IncApplied(applied, inflight[i].userId, inflight[i].points, 1)
    /\ inflight' = Answered(i, 201, << >>)
    /\ UNCHANGED <<resp, revokes, dash, timers>>

\* The request is lost, or the axios timeout of 10 s ends the exchange: the
\* awaited call will throw.
ExchangeFails(i) ==
    /\ i \in DOMAIN inflight
    /\ inflight[i].pc = "request"
    /\ inflight' = Answered(i, NoAnswer, << >>)
    /\ UNCHANGED <<users, claims, resp, applied, revokes, dash, timers>>

\* startPolling(): clears the interval of the ref, if any, and starts one.
startPollingTimers(d, ts) ==
    SetInterval(IF d.pollingIntervalRef # NoTimer
                THEN ClearInterval(ts, d.pollingIntervalRef) ELSE ts)

\* stopPolling(): clears the interval of the ref, if any.
stopPollingTimers(d, ts) ==
    IF d.pollingIntervalRef # NoTimer
    THEN ClearInterval(ts, d.pollingIntervalRef) ELSE ts

\* A fetch of exchange i returns to its caller with the component d it left.
\* initializeApp continues after its three fetches and calls startPolling();
\* handleClaimPoints continues after its two and clears loading.claiming; the
\* interval callback has nothing left to do.
FetchReturns(i, d) ==
    /\ inflight' = RemoveAt(inflight, i)
    /\ IF inflight[i].origin = "init" /\ d.pending = 1
       THEN /\ timers' = startPollingTimers(d, timers)
            /\ dash' = [d EXCEPT !.pending = 0,
                                 !.pollingIntervalRef = Len(timers')]
       ELSE /\ timers' = timers
            /\ dash' = CASE inflight[i].origin = "init" ->
                                [d EXCEPT !.pending = @ - 1]
                         [] inflight[i].origin = "claim" ->
                                [d EXCEPT !.refreshing = @ - 1,
                                          !.claiming = d.refreshing > 1]
                         [] OTHER -> d
    /\ UNCHANGED <<users, claims, resp, applied, revokes>>

\* fetchLeaderboard after its await: a response sets the leaderboard (a state
\* update of an unmounted component is dropped) and initialLoadComplete; an
\* error is logged.
fetchLeaderboard(i) ==
    /\ i \in DOMAIN inflight
    /\ inflight[i].pc = "response"
    /\ inflight[i].op = "leaderboard"
    /\ FetchReturns(i,
          IF inflight[i].status = 200
          THEN [dash EXCEPT !.leaderboard = IF dash.mounted
                                            THEN inflight[i].data ELSE @,
                            !.initialLoadComplete = TRUE]
          ELSE dash)

\* fetchStats after its await.
fetchStats(i) ==
    /\ i \in DOMAIN inflight
    /\ inflight[i].pc = "response"
    /\ inflight[i].op = "stats"
    /\ FetchReturns(i,
          IF inflight[i].status = 200 /\ dash.mounted
          THEN [dash EXCEPT !.stats = inflight[i].data]
          ELSE dash)

\* fetchUsers after its await.
fetchUsers(i) ==
    /\ i \in DOMAIN inflight
    /\ inflight[i].pc = "response"
    /\ inflight[i].op = "users"
    /\ FetchReturns(i,
          IF inflight[i].status = 200 /\ dash.mounted
          THEN [dash EXCEPT !.loaded = TRUE]
          ELSE dash)

\* A click on the claim button, enabled with a selected user and not while
\* loading.claiming: handleClaimPoints posts the claim.
handleClaimPoints(uid, pts) ==
    /\ dash.mounted
    /\ dash.loaded
    /\ ~dash.claiming
    /\ dash.clicks < MaxClicks
    /\ Len(inflight) + 2 <= MaxExchanges
    /\ uid \in ActiveUsers(users)
    /\ inflight' = Append(inflight, Exchange("claim", "claim", uid, pts))
    /\ dash' = [dash EXCEPT !.claiming = TRUE, !.clicks = @ + 1]
    /\ UNCHANGED <<users, claims, resp, applied, revokes, timers>>

\* handleClaimPoints after the await of claimAPI.claimPoints: after a 201 it
\* calls fetchLeaderboard(true) and fetchStats(); after an error it shows the
\* notification and clears loading.claiming.
claimPointsReturns(i) ==
    /\ i \in DOMAIN inflight
    /\ inflight[i].pc = "response"
    /\ inflight[i].op = "claim"
    /\ IF inflight[i].status = 201
       THEN /\ inflight' = RemoveAt(inflight, i) \o
                    << Exchange("leaderboard", "claim", BadId, NoPoints),
                       Exchange("stats", "claim", BadId, NoPoints) >>
            /\ dash' = [dash EXCEPT !.refreshing = 2]
       ELSE /\ inflight' = RemoveAt(inflight, i)
            /\ dash' = [dash EXCEPT !.claiming = FALSE]
    /\ UNCHANGED <<users, claims, resp, applied, revokes, timers>>

\* The component is unmounted: the cleanup of the effect calls stopPolling().
Unmount ==
    /\ dash.mounted
    /\ timers' = stopPollingTimers(dash, timers)
    /\ dash' = [dash EXCEPT !.mounted = FALSE, !.pollingIntervalRef = NoTimer]
    /\ UNCHANGED <<users, claims, inflight, resp, applied, revokes>>

\* One second passes: no running interval is due.
Advance ==
    /\ ActiveTimers # {}
    /\ \A id \in ActiveTimers : timers[id].left > 0
    /\ timers' = [id \in DOMAIN timers |->
                    IF timers[id].active
                    THEN [timers[id] EXCEPT !.left = @ - 1] ELSE timers[id]]
    /\ UNCHANGED <<users, claims, inflight, resp, applied, revokes, dash>>

\* An interval callback that fetches whether or not a leaderboard was loaded.
TickAlways(id) ==
    /\ id \in ActiveTimers
    /\ timers[id].left = 0
    /\ Len(inflight) + 2 <= MaxExchanges
    /\ inflight' = inflight \o << Exchange("leaderboard", "poll", BadId, NoPoints),
                                  Exchange("stats", "poll", BadId, NoPoints) >>
    /\ timers' = [timers EXCEPT ![id].left = PollInterval]
    /\ UNCHANGED <<users, claims, resp, applied, revokes, dash>>

\* Interval id is due and its callback runs: if initialLoadComplete.current,
\* it calls fetchLeaderboard(false) and fetchStats(); the interval is due
\* again after PollInterval seconds.
Tick(id) ==
    /\ id \in ActiveTimers
    /\ timers[id].left = 0
    /\ IF dash.initialLoadComplete
       THEN /\ Len(inflight) + 2 <= MaxExchanges
            /\ inflight' = inflight \o
                   << Exchange("leaderboard", "poll", BadId, NoPoints),
                      Exchange("stats", "poll", BadId, NoPoints) >>
       ELSE inflight' = inflight
    /\ timers' = [timers EXCEPT ![id].left = PollInterval]
    /\ UNCHANGED <<users, claims, resp, applied, revokes, dash>>

NextDash ==
    \/ \E i \in 1..(MaxExchanges + 1) :
          \/ ServeLeaderboard(i)
          \/ ServeStats(i)
          \/ ServeUsers(i)
          \/ ServeClaim(i)
          \/ ExchangeFails(i)
          \/ fetchLeaderboard(i)
          \/ fetchStats(i)
          \/ fetchUsers(i)
          \/ claimPointsReturns(i)
    \/ \E uid \in 1..MaxUsers, pts \in DashPointInputs : handleClaimPoints(uid, pts)
    \/ Unmount
    \/ Advance
    \/ \E id \in TimerIds : Tick(id)

SpecDash == InitDash /\ [][NextDash]_vars

\* The browser and the server take their steps: a due interval runs its
\* callback, time passes, the server handles a request it has received, and a
\* function continues after the await whose exchange has ended.  A click, an
\* unmount and a failing exchange may or may not happen.
SpecDashLive ==
    /\ InitDash
    /\ [][NextDash]_vars
    /\ WF_vars(Advance)
    /\ WF_vars(\E id \in TimerIds : Tick(id))
    /\ WF_vars(\E i \in 1..(MaxExchanges + 1) :
                  ServeLeaderboard(i) \/ ServeStats(i) \/ ServeUsers(i) \/ ServeClaim(i))
    /\ WF_vars(\E i \in 1..(MaxExchanges + 1) :
                  fetchLeaderboard(i) \/ fetchStats(i) \/ fetchUsers(i)
                      \/ claimPointsReturns(i))

---------------------------------------------------------------------------
\* Vocabulary of the properties of the dashboard.

\* The requests of the interval callback that the server has not seen yet.
PollRequests(s) ==
    {i \in DOMAIN s : s[i].origin = "poll" /\ s[i].pc = "request"}

\* The step issues a request of the interval callback.
PollIssued ==
    Cardinality(PollRequests(inflight')) > Cardinality(PollRequests(inflight))

\* The step runs the callback of an interval that is due.
TimerFired ==
    \E id \in ActiveTimers : timers[id].left = 0 /\ timers'[id].left = PollInterval

\* The step is the return of a leaderboard fetch that was answered 200.
LeaderboardFetched ==
    \E i \in DOMAIN inflight :
        /\ inflight[i].op = "leaderboard"
        /\ inflight[i].pc = "response"
        /\ inflight[i].status = 200
        /\ inflight' = RemoveAt(inflight, i)

\* C23: the dashboard issues a request of the periodic refresh only after a
\* fetch of the leaderboard has succeeded (initialLoadComplete is set by the
\* return of a leaderboard fetch answered 200 and by nothing else, and never
\* reset), and only from the callback of an interval that is due; once a fetch
\* has succeeded, every run of the callback requests the leaderboard and the
\* stats; the callback runs every PollInterval seconds (the time left of an
\* interval goes down by one second at a time and is PollInterval after a
\* run); and while the dashboard is mounted and its initial load has returned,
\* one interval is running.
C23_PollAfterInitialFetch ==
    [][/\ (dash'.initialLoadComplete /\ ~dash.initialLoadComplete)
              => LeaderboardFetched
       /\ dash.initialLoadComplete => dash'.initialLoadComplete
       /\ PollIssued => (dash.initialLoadComplete /\ TimerFired)
       /\ (TimerFired /\ dash.initialLoadComplete) =>
              inflight' = inflight \o
                  << Exchange("leaderboard", "poll", BadId, NoPoints),
                     Exchange("stats", "poll", BadId, NoPoints) >>
       /\ \A id \in DOMAIN timers :
              \/ timers'[id].left = timers[id].left
              \/ timers'[id].left = timers[id].left - 1
              \/ (timers[id].left = 0 /\ timers'[id].left = PollInterval)
       /\ (dash'.mounted /\ dash'.pending = 0) =>
              Cardinality(ActiveTimers') = 1]_vars

\* C23 witness: the initial fetch has succeeded, the interval has run its
\* callback and the two requests of the refresh are under way.
C23_Witness ==
    /\ dash.mounted
    /\ dash.initialLoadComplete
    /\ dash.leaderboard # << >>
    /\ \E i, j \in DOMAIN inflight :
          /\ inflight[i].origin = "poll" /\ inflight[i].op = "leaderboard"
          /\ inflight[j].origin = "poll" /\ inflight[j].op = "stats"
    /\ \E id \in ActiveTimers : timers[id].left = PollInterval

\* C28: if the initial fetch of the leaderboard has failed (the initial load
\* has returned and no leaderboard was loaded), then, with no user action, a
\* later run of the interval callback requests the leaderboard again, or the
\* leaderboard has been loaded, or the dashboard is unmounted.
C28_TickRetries ==
    (dash.mounted /\ dash.pending = 0 /\ ~dash.initialLoadComplete)
        ~> \/ dash.initialLoadComplete
           \/ ~dash.mounted
           \/ \E i \in DOMAIN inflight : inflight[i].op = "leaderboard"

\* C29: at most one interval is running at any time, and once the dashboard
\* is unmounted no interval is running and no request of the periodic refresh
\* is issued, also when the unmount comes before the initial load returns.
C29_TimerStopped ==
    [][/\ Cardinality(ActiveTimers') <= 1
       /\ ~dash'.mounted => ActiveTimers' = {}
       /\ ~dash.mounted => ~PollIssued]_vars

\* C30: the displayed leaderboard is never replaced by an older state of the
\* server: the totals of the server only grow, so no step lowers the
\* displayed total of a participant.
C30_NeverOlder ==
    [][\A k \in DOMAIN dash.leaderboard, j \in DOMAIN dash'.leaderboard :
           dash.leaderboard[k].id = dash'.leaderboard[j].id =>
               dash'.leaderboard[j].totalPoints >= dash.leaderboard[k].totalPoints]_vars

====
